---------------------------- MODULE Spec2Model ----------------------------
(***************************************************************************)
(* Model of ViewManager.cpp: the file-scope camera pointer and pointer-    *)
(* tracking globals, the ViewManager constructor/destructor, the window    *)
(* creation, the cursor callback, the keyboard polling and the per-frame   *)
(* matrix upload.                                                          *)
(*                                                                         *)
(* Numbers.  Floats are modelled in fixed point.  Lengths and vector       *)
(* components are integers in units of 1/Scale.  Angles are integers in    *)
(* units of 1/AngleScale degree.  Cursor coordinates are whole pixels.     *)
(* Trigonometry is a table of sines at whole degrees with linear           *)
(* interpolation, so every result is within a few units of 1/Scale of the  *)
(* real value; "exactly" in a statement about floats therefore reads "to   *)
(* within Tol units".                                                       *)
(***************************************************************************)
EXTENDS Integers, Sequences, FiniteSets

\* ------------------------------------------------------------------ bounds
MaxInst     == 2      \* ViewManager objects that may exist (SpecMulti)
MaxCams     == 2      \* Camera allocations over a run
MaxWindows  == 1      \* glfwCreateWindow successes over a run
MaxMoves    == 2      \* cursor events over a run
MaxKeyCalls == 1      \* ProcessKeyboardEvents calls over a run
MaxUploads  == 2      \* setMat4Value calls kept in the upload log

\* ------------------------------------------------------- program constants
WINDOW_WIDTH  == 1000
WINDOW_HEIGHT == 800

NULL == 0

Scale      == 10 * 1000           \* fixed-point unit of lengths: 1.0
AngleScale == 10 * 10             \* fixed-point unit of angles: 1 degree
Tol        == 2 + 1               \* rounding tolerance of a length, in 1/Scale

Inst == 1..MaxInst

\* ------------------------------------------------------------- arithmetic
Abs(a) == IF a < 0 THEN -a ELSE a

\* a / b rounded to nearest, b > 0
RoundDiv(a, b) ==
    IF a >= 0 THEN (2 * a + b) \div (2 * b) ELSE -((2 * (-a) + b) \div (2 * b))

RECURSIVE ISqrtIn(_, _, _)
ISqrtIn(n, lo, hi) ==
    IF lo >= hi THEN lo
    ELSE LET mid == (lo + hi + 1) \div 2
         IN  IF mid * mid <= n THEN ISqrtIn(n, mid, hi) ELSE ISqrtIn(n, lo, mid - 1)

\* floor of the square root
ISqrt(n) == ISqrtIn(n, 0, 46340)

\* sqrt rounded to nearest
Sqrt(n) == LET r == ISqrt(n) IN IF n - r * r > r THEN r + 1 ELSE r

\* Scale * sin(d degrees), d = 0..90
SinTable ==
    << 0, 175, 349, 523, 698, 872, 1045, 1219, 1392, 1564, 1736, 1908, 2079,
       2250, 2419, 2588, 2756, 2924, 3090, 3256, 3420, 3584, 3746, 3907, 4067, 4226,
       4384, 4540, 4695, 4848, 5000, 5150, 5299, 5446, 5592, 5736, 5878, 6018, 6157,
       6293, 6428, 6561, 6691, 6820, 6947, 7071, 7193, 7314, 7431, 7547, 7660, 7771,
       7880, 7986, 8090, 8192, 8290, 8387, 8480, 8572, 8660, 8746, 8829, 8910, 8988,
       9063, 9135, 9205, 9272, 9336, 9397, 9455, 9511, 9563, 9613, 9659, 9703, 9744,
       9781, 9816, 9848, 9877, 9903, 9925, 9945, 9962, 9976, 9986, 9994, 9998, 10000 >>

\* sine of an angle in the first quadrant, a in 0 .. 90 * AngleScale
SinQ(a) ==
    LET d == a \div AngleScale
        r == a % AngleScale
    IN  IF r = 0 THEN SinTable[d + 1]
        ELSE RoundDiv(SinTable[d + 1] * (AngleScale - r) + SinTable[d + 2] * r, AngleScale)

\* sin(glm::radians(a)), a any angle in 1/AngleScale degree
Sin(a) ==
    LET m == a % (360 * AngleScale)
    IN  IF m <= 90 * AngleScale THEN SinQ(m)
        ELSE IF m <= 180 * AngleScale THEN SinQ(180 * AngleScale - m)
        ELSE IF m <= 270 * AngleScale THEN -SinQ(m - 180 * AngleScale)
        ELSE -SinQ(360 * AngleScale - m)

\* cos(glm::radians(a))
Cos(a) == Sin(a + 90 * AngleScale)

\* ---------------------------------------------------------------- vectors
Vec(x, y, z) == << x, y, z >>

VAdd(a, b) == << a[1] + b[1], a[2] + b[2], a[3] + b[3] >>
VSub(a, b) == << a[1] - b[1], a[2] - b[2], a[3] - b[3] >>

\* s * v, s a fixed-point scalar
VScale(s, v) == << RoundDiv(s * v[1], Scale), RoundDiv(s * v[2], Scale), RoundDiv(s * v[3], Scale) >>

Len2(v) == v[1] * v[1] + v[2] * v[2] + v[3] * v[3]

Length(v) == Sqrt(Len2(v))

\* glm::normalize
Normalize(v) ==
    LET l == Length(v)
    IN  << RoundDiv(v[1] * Scale, l), RoundDiv(v[2] * Scale, l), RoundDiv(v[3] * Scale, l) >>

\* glm::cross
Cross(a, b) ==
    << RoundDiv(a[2] * b[3] - a[3] * b[2], Scale),
       RoundDiv(a[3] * b[1] - a[1] * b[3], Scale),
       RoundDiv(a[1] * b[2] - a[2] * b[1], Scale) >>

IsUnit(v) == Abs(Length(v) - Scale) <= Tol


\* ------------------------------------------------------------------ state
VARIABLES
    alive,            \* the ViewManager objects constructed and not destroyed
    m_pShaderManager, \* per object: the bound shader manager, or NULL
    m_pWindow,        \* per object: the stored window handle, or NULL
    g_pCamera,        \* the file-scope camera pointer: a heap address or NULL
    heap,             \* the Camera objects allocated and not deleted
    freed,            \* the addresses passed to delete
    nextCam,          \* the address the next new Camera() returns
    gLastX, gLastY,   \* last cursor position
    gFirstMouse,      \* first-sample flag
    windows,          \* GLFW windows that exist (each has the cursor callback)
    nextWin,          \* the handle the next successful glfwCreateWindow returns
    shouldClose,      \* windows whose close flag is set
    uploads,          \* log of ShaderManager::setMat4Value calls
    keyCalls,         \* ProcessKeyboardEvents calls made so far
    mouseCalls,       \* Mouse_Position_Callback calls made so far
    crashed,          \* the process dereferenced a null camera pointer
    moves,            \* cursor events handled since the last construction (0, 1, 2 = more)
    returned          \* what the last CreateDisplayWindow call returned

vars == << alive, m_pShaderManager, m_pWindow, g_pCamera, heap, freed, nextCam,
           gLastX, gLastY, gFirstMouse, windows, nextWin, shouldClose, uploads,
           keyCalls, mouseCalls, crashed, moves, returned >>

\* the shader manager objects a caller may pass: none, or the one that exists
ShaderManagers == {NULL, 1}

\* cursor positions the window system may report, in pixels.  From the
\* first to the second is a move of (+100, -50); the third is far enough
\* below the others that a move to or from it passes the pitch limits
MousePositions == { << 0, 50 >>, << 100, 0 >>, << 0, 950 >> }

\* the sets of keys found pressed by one poll: none, each movement key alone,
\* opposite keys together, a diagonal, and the escape key with and without
\* a movement key
KeySets ==
    { {}, {"W"}, {"S"}, {"A"}, {"D"}, {"W", "S"}, {"W", "D"}, {"ESC"}, {"A", "ESC"} }

\* frame times, in milliseconds; at 400 ms the camera speed is 1.0
DeltaTimes == {400}

\* Camera::Camera(): the yaw and pitch a default-constructed camera holds.
\* The class is declared outside this file; any of these may be its defaults.
CameraYaws    == {-90 * AngleScale}
CameraPitches == {0}

DefaultCamera(yaw, pitch) ==
    [Position |-> Vec(0, 0, 0), Front |-> Vec(0, 0, -Scale), Up |-> Vec(0, Scale, 0),
     Yaw |-> yaw, Pitch |-> pitch, Zoom |-> 45]

\* the camera the constructor leaves behind: new Camera() with the default
\* view parameters assigned over it
InitialPose(cam) ==
    [cam EXCEPT !.Position = Vec(0, 5 * Scale, 12 * Scale),
                !.Front    = Vec(0, -(Scale \div 2), -2 * Scale),
                !.Up       = Vec(0, Scale, 0),
                !.Zoom     = 80]

Init ==
    /\ alive = {}
    /\ m_pShaderManager = [i \in Inst |-> NULL]
    /\ m_pWindow = [i \in Inst |-> NULL]
    /\ g_pCamera = NULL
    /\ heap = << >>
    /\ freed = {}
    /\ nextCam = 1
    /\ gLastX = WINDOW_WIDTH \div 2
    /\ gLastY = WINDOW_HEIGHT \div 2
    /\ gFirstMouse = TRUE
    /\ windows = {}
    /\ nextWin = 1
    /\ shouldClose = {}
    /\ uploads = << >>
    /\ keyCalls = 0
    /\ mouseCalls = 0
    /\ crashed = FALSE
    /\ moves = 0
    /\ returned = NULL

\* ------------------------------------------- ViewManager::ViewManager
Constructor(i, pShaderManager, yaw, pitch) ==
    /\ ~crashed
    /\ i \notin alive
    /\ nextCam <= MaxCams
    /\ alive' = alive \cup {i}
    /\ m_pShaderManager' = [m_pShaderManager EXCEPT ![i] = pShaderManager]
    /\ m_pWindow' = [m_pWindow EXCEPT ![i] = NULL]
    /\ g_pCamera' = nextCam
    /\ heap' = [a \in DOMAIN heap \cup {nextCam} |->
                  IF a = nextCam THEN InitialPose(DefaultCamera(yaw, pitch)) ELSE heap[a]]
    /\ nextCam' = nextCam + 1
    /\ moves' = 0
    /\ UNCHANGED << freed, gLastX, gLastY, gFirstMouse, windows, nextWin, shouldClose,
                    uploads, keyCalls, mouseCalls, crashed, returned >>

\* ------------------------------------------ ViewManager::~ViewManager
Destructor(i) ==
    /\ ~crashed
    /\ i \in alive
    /\ alive' = alive \ {i}
    /\ m_pShaderManager' = [m_pShaderManager EXCEPT ![i] = NULL]
    /\ m_pWindow' = [m_pWindow EXCEPT ![i] = NULL]
    /\ IF g_pCamera # NULL
          THEN /\ heap' = [a \in DOMAIN heap \ {g_pCamera} |-> heap[a]]
               /\ freed' = freed \cup {g_pCamera}
               /\ g_pCamera' = NULL
          ELSE UNCHANGED << heap, freed, g_pCamera >>
    /\ UNCHANGED << nextCam, gLastX, gLastY, gFirstMouse, windows, nextWin, shouldClose,
                    uploads, keyCalls, mouseCalls, crashed, moves, returned >>


\* ------------------------------------ ViewManager::CreateDisplayWindow
\* the handle stored before it is tested
CreateFailedStoresHandle(stored, ws) ==
    [ret |-> NULL, stored |-> NULL, windows |-> {}]

\* the failure branch: the diagnostic, glfwTerminate() (which destroys every
\* window and with it every registered callback), return NULL
CreateFailed(stored, ws) ==
    [ret |-> NULL, stored |-> stored, windows |-> {}]

\* the success branch: the cursor callback is registered on the new window,
\* the handle is stored and returned
CreateSucceeded(window, ws) ==
    [ret |-> window, stored |-> window, windows |-> ws \cup {window}]

\* window is what glfwCreateWindow returned: a new handle, or NULL
CreateDisplayWindow(i, window) ==
    /\ ~crashed
    /\ i \in alive
    /\ window # NULL => (window = nextWin /\ nextWin <= MaxWindows)
    /\ LET r == IF window = NULL THEN CreateFailed(m_pWindow[i], windows)
                ELSE CreateSucceeded(window, windows)
       IN  /\ m_pWindow' = [m_pWindow EXCEPT ![i] = r.stored]
           /\ windows' = r.windows
           /\ shouldClose' = shouldClose \cap r.windows
           /\ returned' = r.ret
    /\ nextWin' = IF window = NULL THEN nextWin ELSE nextWin + 1
    /\ UNCHANGED << alive, m_pShaderManager, g_pCamera, heap, freed, nextCam, gLastX,
                    gLastY, gFirstMouse, uploads, keyCalls, mouseCalls, crashed, moves >>

\* -------------------------------- ViewManager::Mouse_Position_Callback
\* offset *= sensitivity (0.1f), the result in angle units
Sensitivity(offset) == RoundDiv(offset * AngleScale, 10)

XOffset(xMousePos, lastX) == xMousePos - lastX

\* the vertical offset taken without the reversal
YOffsetNotReversed(yMousePos, lastY) == yMousePos - lastY

\* reversed since y-coordinates range from bottom to top
YOffset(yMousePos, lastY) == lastY - yMousePos

\* the lower limit forgotten
ClampPitchUpperOnly(pitch) ==
    IF pitch > 89 * AngleScale THEN 89 * AngleScale ELSE pitch

ClampPitch(pitch) ==
    IF pitch > 89 * AngleScale THEN 89 * AngleScale
    ELSE IF pitch < -89 * AngleScale THEN -89 * AngleScale
    ELSE pitch

\* the front vector of a yaw and a pitch
FrontOf(yaw, pitch) ==
    Normalize(Vec(RoundDiv(Cos(yaw) * Cos(pitch), Scale),
                  Sin(pitch),
                  RoundDiv(Sin(yaw) * Cos(pitch), Scale)))

\* the front vector recomputed before the pitch is clamped
OrientThenClamp(cam, xoffset, yoffset) ==
    LET yaw   == cam.Yaw + xoffset
        pitch == cam.Pitch + yoffset
    IN  [cam EXCEPT !.Yaw = yaw, !.Pitch = ClampPitch(pitch), !.Front = FrontOf(yaw, pitch)]

\* the camera after the yaw and pitch offsets are applied
Orient(cam, xoffset, yoffset) ==
    LET yaw   == cam.Yaw + xoffset
        pitch == ClampPitch(cam.Pitch + yoffset)
    IN  [cam EXCEPT !.Yaw = yaw, !.Pitch = pitch, !.Front = FrontOf(yaw, pitch)]

\* the last position the offsets are taken from: the reported position itself
\* on the first sample
SeedLast(first, lastPos, mousePos) == IF first THEN mousePos ELSE lastPos

Mouse_Position_Callback(xMousePos, yMousePos) ==
    /\ ~crashed
    /\ windows # {}
    /\ g_pCamera # NULL
    /\ mouseCalls < MaxMoves
    /\ mouseCalls' = mouseCalls + 1
    /\ LET lx == SeedLast(gFirstMouse, gLastX, xMousePos)
           ly == SeedLast(gFirstMouse, gLastY, yMousePos)
           xoffset == Sensitivity(XOffset(xMousePos, lx))
           yoffset == Sensitivity(YOffset(yMousePos, ly))
       IN  heap' = [heap EXCEPT ![g_pCamera] = Orient(@, xoffset, yoffset)]
    /\ gLastX' = xMousePos
    /\ gLastY' = yMousePos
    /\ gFirstMouse' = FALSE
    /\ moves' = IF moves < 2 THEN moves + 1 ELSE moves
    /\ UNCHANGED << alive, m_pShaderManager, m_pWindow, g_pCamera, freed, nextCam,
                    windows, nextWin, shouldClose, uploads, keyCalls, crashed, returned >>

\* the callback while g_pCamera is NULL: the pointer-tracking globals are
\* written, then g_pCamera->Yaw is a null dereference
MouseNoCamera(xMousePos, yMousePos) ==
    /\ ~crashed
    /\ windows # {}
    /\ g_pCamera = NULL
    /\ mouseCalls < MaxMoves
    /\ mouseCalls' = mouseCalls + 1
    /\ gLastX' = xMousePos
    /\ gLastY' = yMousePos
    /\ gFirstMouse' = FALSE
    /\ crashed' = TRUE
    /\ UNCHANGED << alive, m_pShaderManager, m_pWindow, g_pCamera, heap, freed, nextCam,
                    windows, nextWin, shouldClose, uploads, keyCalls, moves, returned >>

\* ---------------------------------- ViewManager::ProcessKeyboardEvents
\* cameraSpeed = 2.5f * deltatime, deltatime in milliseconds here
CameraSpeed(dt) == RoundDiv(25 * dt * Scale, 10 * 1000)

Strafe(cam) == Normalize(Cross(cam.Front, cam.Up))

\* the four movement keys, tested and applied in the order W, S, A, D
Translate(cam, keys, cameraSpeed) ==
    LET p0 == cam.Position
        p1 == IF "W" \in keys THEN VAdd(p0, VScale(cameraSpeed, cam.Front)) ELSE p0
        p2 == IF "S" \in keys THEN VSub(p1, VScale(cameraSpeed, cam.Front)) ELSE p1
        p3 == IF "A" \in keys THEN VSub(p2, VScale(cameraSpeed, Strafe(cam))) ELSE p2
        p4 == IF "D" \in keys THEN VAdd(p3, VScale(cameraSpeed, Strafe(cam))) ELSE p3
    IN  [cam EXCEPT !.Position = p4]

ProcessKeyboardEvents(i, window, keys, deltatime) ==
    /\ ~crashed
    /\ i \in alive
    /\ window \in windows
    /\ g_pCamera # NULL
    /\ keyCalls < MaxKeyCalls
    /\ keyCalls' = keyCalls + 1
    /\ shouldClose' = IF "ESC" \in keys THEN shouldClose \cup {window} ELSE shouldClose
    /\ heap' = [heap EXCEPT ![g_pCamera] = Translate(@, keys, CameraSpeed(deltatime))]
    /\ UNCHANGED << alive, m_pShaderManager, m_pWindow, g_pCamera, freed, nextCam, gLastX,
                    gLastY, gFirstMouse, windows, nextWin, uploads, mouseCalls, crashed,
                    moves, returned >>

\* with g_pCamera NULL: the escape key is handled, then a movement key that is
\* down makes g_pCamera->Position a null dereference
KeysNoCamera(i, window, keys) ==
    /\ ~crashed
    /\ i \in alive
    /\ window \in windows
    /\ g_pCamera = NULL
    /\ shouldClose' = IF "ESC" \in keys THEN shouldClose \cup {window} ELSE shouldClose
    /\ crashed' = (keys \cap {"W", "S", "A", "D"} # {})
    /\ UNCHANGED << alive, m_pShaderManager, m_pWindow, g_pCamera, heap, freed, nextCam,
                    gLastX, gLastY, gFirstMouse, windows, nextWin, uploads, keyCalls, mouseCalls, moves, returned >>

\* --------------------------------------- ViewManager::PrepareSceneView
g_ViewName == "view"
g_ProjectionName == "projection"

\* the view matrix uploaded without the test for a bound shader manager
UploadedViewUnguarded(shader) ==
    << g_ViewName >> \o (IF shader # NULL THEN << g_ProjectionName >> ELSE << >>)

\* the uniform names of the setMat4Value calls of one PrepareSceneView, in
\* order; the matrices themselves are values computed from the camera, which
\* stays as it is
Uploaded(shader) ==
    (IF shader # NULL THEN << g_ViewName >> ELSE << >>)
    \o (IF shader # NULL THEN << g_ProjectionName >> ELSE << >>)

PrepareSceneView(i) ==
    /\ ~crashed
    /\ i \in alive
    /\ g_pCamera # NULL
    /\ Len(uploads) + Len(Uploaded(m_pShaderManager[i])) <= MaxUploads
    /\ uploads' = uploads \o Uploaded(m_pShaderManager[i])
    /\ UNCHANGED << alive, m_pShaderManager, m_pWindow, g_pCamera, heap, freed, nextCam,
                    gLastX, gLastY, gFirstMouse, windows, nextWin, shouldClose, keyCalls, mouseCalls,
                    crashed, moves, returned >>

\* with g_pCamera NULL, g_pCamera->GetViewMatrix() is a null dereference
PrepareNoCamera(i) ==
    /\ ~crashed
    /\ i \in alive
    /\ g_pCamera = NULL
    /\ crashed' = TRUE
    /\ UNCHANGED << alive, m_pShaderManager, m_pWindow, g_pCamera, heap, freed, nextCam,
                    gLastX, gLastY, gFirstMouse, windows, nextWin, shouldClose, uploads,
                    keyCalls, mouseCalls, moves, returned >>

\* --------------------------------------------------------- specifications
Construct(i) ==
    \E sm \in ShaderManagers, yaw \in CameraYaws, pitch \in CameraPitches :
        Constructor(i, sm, yaw, pitch)

Destroy == \E i \in Inst : Destructor(i)

CreateWindow == \E i \in Inst, window \in {NULL, nextWin} : CreateDisplayWindow(i, window)

MouseMove == \E p \in MousePositions : Mouse_Position_Callback(p[1], p[2])

MouseMoveNoCamera == \E p \in MousePositions : MouseNoCamera(p[1], p[2])

PollKeyboard ==
    \E i \in Inst, w \in windows, keys \in KeySets, dt \in DeltaTimes :
        ProcessKeyboardEvents(i, w, keys, dt)

PollKeyboardNoCamera ==
    \E i \in Inst, w \in windows, keys \in KeySets : KeysNoCamera(i, w, keys)

Prepare == \E i \in Inst : PrepareSceneView(i)

PrepareWithoutCamera == \E i \in Inst : PrepareNoCamera(i)

\* one view controller at a time: a ViewManager is constructed only when none
\* exists
ConstructSingle == alive = {} /\ Construct(1)

\* up to MaxInst view controllers at a time
ConstructAny == \E i \in Inst : Construct(i)

Next ==
    \/ ConstructSingle
    \/ Destroy
    \/ CreateWindow
    \/ MouseMove
    \/ MouseMoveNoCamera
    \/ PollKeyboard
    \/ Prepare

Spec == Init /\ [][Next]_vars

NextMulti ==
    \/ ConstructAny
    \/ Destroy
    \/ CreateWindow
    \/ MouseMove
    \/ MouseMoveNoCamera
    \/ PollKeyboard
    \/ PollKeyboardNoCamera
    \/ Prepare
    \/ PrepareWithoutCamera

SpecMulti == Init /\ [][NextMulti]_vars


\* ------------------------------------------------------------- properties
HasCamera == g_pCamera # NULL

\* the camera g_pCamera points to
Cam == heap[g_pCamera]

PitchLimit == 89 * AngleScale

\* 0.1 * pixels, in angle units
Tenth(pixels) == pixels * (AngleScale \div 10)

Between(lo, a, hi) == lo <= a /\ a <= hi

\* C1: after every Mouse_Position_Callback call the stored Pitch lies in
\* [-89, 89]; it is 89 when the previous pitch plus the scaled vertical delta
\* exceeds 89, -89 when that sum is below -89, and the sum itself otherwise.
C1_PitchClamped ==
    [][\A p \in MousePositions :
          Mouse_Position_Callback(p[1], p[2]) =>
            LET delta == IF gFirstMouse THEN 0 ELSE Tenth(gLastY - p[2])
                sum   == Cam.Pitch + delta
            IN  /\ Between(-PitchLimit, Cam'.Pitch, PitchLimit)
                /\ sum > PitchLimit => Cam'.Pitch = PitchLimit
                /\ sum < -PitchLimit => Cam'.Pitch = -PitchLimit
                /\ Between(-PitchLimit, sum, PitchLimit) => Cam'.Pitch = sum]_vars

\* a cursor event has pushed the pitch past the upper limit and it is stored as 89
C1_Witness == HasCamera /\ moves >= 1 /\ Cam.Pitch = PitchLimit

\* C2: the first cursor event after a construction leaves Yaw, Pitch and
\* Front as they were; it only seeds gLastX/gLastY with the reported position
\* and clears the first-sample flag.
C2_FirstMoveChangesNothing ==
    [][\A p \in MousePositions :
          (moves = 0 /\ Mouse_Position_Callback(p[1], p[2])) =>
            /\ Cam'.Yaw = Cam.Yaw
            /\ Cam'.Pitch = Cam.Pitch
            /\ Cam'.Front = Cam.Front
            /\ gLastX' = p[1] /\ gLastY' = p[2] /\ gFirstMouse' = FALSE]_vars

\* C3: a cursor event after the first adds 0.1 * (x - gLastX) to Yaw and
\* 0.1 * (gLastY - y) to Pitch (the sum then held to the pitch limits), and
\* leaves gLastX = x, gLastY = y.
C3_OffsetsScaled ==
    [][\A p \in MousePositions :
          (~gFirstMouse /\ Mouse_Position_Callback(p[1], p[2])) =>
            LET sum == Cam.Pitch + Tenth(gLastY - p[2])
            IN  /\ Cam'.Yaw = Cam.Yaw + Tenth(p[1] - gLastX)
                /\ Between(-PitchLimit, sum, PitchLimit) => Cam'.Pitch = sum
                /\ sum > PitchLimit => Cam'.Pitch = PitchLimit
                /\ sum < -PitchLimit => Cam'.Pitch = -PitchLimit
                /\ gLastX' = p[1] /\ gLastY' = p[2]]_vars

\* the move of (+100, -50) pixels has been applied to a fresh camera: yaw is
\* up by 10 degrees, pitch by 5
C3_Witness ==
    /\ HasCamera /\ moves = 2
    /\ gLastX = 100 /\ gLastY = 0
    /\ \E yaw \in CameraYaws, pitch \in CameraPitches :
          Cam.Yaw = yaw + 10 * AngleScale /\ Cam.Pitch = pitch + 5 * AngleScale

\* C4: Front is a unit vector whenever a camera exists: right after the
\* constructor and after any sequence of cursor and keyboard events.
C4_FrontUnit == HasCamera => IsUnit(Cam.Front)

\* the displacement the pressed movement keys ask for, speed s
Displacement(cam, keys, s) ==
    LET right == Normalize(Cross(cam.Front, cam.Up))
        zero  == Vec(0, 0, 0)
        w == IF "W" \in keys THEN VScale(s, cam.Front) ELSE zero
        b == IF "S" \in keys THEN VScale(s, cam.Front) ELSE zero
        d == IF "D" \in keys THEN VScale(s, right) ELSE zero
        a == IF "A" \in keys THEN VScale(s, right) ELSE zero
    IN  VSub(VAdd(w, d), VAdd(b, a))

\* C5: one ProcessKeyboardEvents call moves Position by the sum over the
\* pressed keys of +-s*Front and +-s*normalize(Front x Up), s = 2.5 * dt; with
\* only W pressed and s = 1 the displacement is Front and has length 1,
\* before or after any cursor event; with no movement key Position stays.
C5_Translation ==
    [][\A i \in Inst, w \in windows, keys \in KeySets, dt \in DeltaTimes :
          ProcessKeyboardEvents(i, w, keys, dt) =>
            LET moved == VSub(Cam'.Position, Cam.Position)
            IN  /\ moved = Displacement(Cam, keys, CameraSpeed(dt))
                /\ (keys = {"W"} /\ CameraSpeed(dt) = Scale) =>
                      (moved = Cam.Front /\ IsUnit(moved))
                /\ keys \cap {"W", "S", "A", "D"} = {} => moved = Vec(0, 0, 0)]_vars

\* C6: a PrepareSceneView call with a bound shader manager uploads "view"
\* then "projection", once each; with none bound it uploads nothing and
\* raises no error; either way the camera and the pointer-tracking globals
\* are unchanged.
C6_UploadsTwoOrNone ==
    [][\A i \in Inst :
          PrepareSceneView(i) =>
            /\ m_pShaderManager[i] # NULL => uploads' = uploads \o << "view", "projection" >>
            /\ m_pShaderManager[i] = NULL => uploads' = uploads
            /\ ~crashed'
            /\ UNCHANGED << g_pCamera, heap, gLastX, gLastY, gFirstMouse >>]_vars

\* one PrepareSceneView call with a bound shader manager has run
C6_Witness ==
    /\ uploads = << "view", "projection" >>
    /\ \E i \in alive : m_pShaderManager[i] # NULL

\* C7 as stated: a failed creation returns NULL, m_pWindow is NULL after it
\* and no window (so no cursor callback) exists; a successful one returns the
\* stored handle, whose window has the callback.
C7_FailedCreateLeavesNull ==
    [][\A i \in Inst :
          /\ CreateDisplayWindow(i, NULL) =>
                (returned' = NULL /\ m_pWindow'[i] = NULL /\ windows' = {})
          /\ CreateDisplayWindow(i, nextWin) =>
                (returned' # NULL /\ returned' = m_pWindow'[i] /\ returned' \in windows')]_vars

\* C7 amended: a failed creation returns NULL, leaves m_pWindow as it was
\* (NULL when no earlier creation by this object succeeded) and leaves no
\* window, so no cursor event can be delivered; a successful one returns the
\* stored handle, whose window has the callback.
C7_FailedCreateLeavesStored ==
    /\ [][\A i \in Inst :
            /\ CreateDisplayWindow(i, NULL) =>
                  /\ returned' = NULL
                  /\ m_pWindow'[i] = m_pWindow[i]
                  /\ windows' = {}
                  /\ nextWin' = nextWin
                  /\ UNCHANGED << g_pCamera, heap >>
            /\ CreateDisplayWindow(i, nextWin) =>
                  (returned' # NULL /\ returned' = m_pWindow'[i] /\ returned' \in windows')]_vars
    /\ [](windows = {} => ~ENABLED MouseMove)

\* a creation has failed for an object that had stored a window before: the
\* handle it keeps names a window that no longer exists
C7_Witness ==
    /\ returned = NULL /\ windows = {}
    /\ \E i \in alive : m_pWindow[i] # NULL

\* C8: a construction resets the pointer-tracking globals: until the first
\* cursor event after it, the first-sample flag is set and gLastX/gLastY hold
\* their initial values, so that event changes neither yaw nor pitch.
C8_ConstructionResetsTracking ==
    (alive # {} /\ moves = 0) =>
        /\ gFirstMouse
        /\ gLastX = WINDOW_WIDTH \div 2
        /\ gLastY = WINDOW_HEIGHT \div 2

\* C9: after every Mouse_Position_Callback call Front is the normalized
\* (cos Yaw cos Pitch, sin Pitch, sin Yaw cos Pitch) of the stored Yaw and
\* the stored, clamped Pitch; with Pitch stored as 89 (-89), Front.y is
\* sin 89 (its negative).
C9_FrontFromStoredAngles ==
    [][\A p \in MousePositions :
          Mouse_Position_Callback(p[1], p[2]) =>
            /\ Cam'.Front = FrontOf(Cam'.Yaw, Cam'.Pitch)
            /\ IsUnit(Cam'.Front)
            /\ Cam'.Pitch = PitchLimit => Abs(Cam'.Front[2] - SinTable[90]) <= Tol
            /\ Cam'.Pitch = -PitchLimit => Abs(Cam'.Front[2] + SinTable[90]) <= Tol]_vars

\* a cursor event has pushed the pitch past the lower limit: it is stored as
\* -89 and Front points down by sin 89
C9_Witness ==
    /\ HasCamera /\ moves >= 1
    /\ Cam.Pitch = -PitchLimit
    /\ Abs(Cam.Front[2] + SinTable[90]) <= Tol

\* C10: while any ViewManager is alive g_pCamera points to a camera that has
\* not been deleted, no call made for a live object has dereferenced a null
\* camera, and once every object is destroyed every camera allocated has
\* been deleted.
C10_CameraOwnership ==
    /\ alive # {} => (g_pCamera # NULL /\ g_pCamera \in DOMAIN heap /\ ~crashed)
    /\ alive = {} => DOMAIN heap = {}

=============================================================================
